---- MODULE Spec2Model ----
(***************************************************************************)
(* Terrain tile streaming of the flight simulator:                         *)
(*   - CesiumTerrain (src/src/js/terrain/cesiumterrain.js, variant "A",    *)
(*     and src/unnamed/part_000, variant "B"): update(), the asynchronous  *)
(*     createTerrainTile jobs and the cached elevation sampler;            *)
(*   - Tile (src/unnamed/part_001): update(), load() and its callbacks.    *)
(*   - SimpleTerrain (src/unnamed/part_001): update() and the synchronous  *)
(*     createTerrainTile.                                                  *)
(* Lengths are metres, as in the source.  Distances are compared on their  *)
(* squares: for the integer coordinates used here Math.sqrt(x) < D is      *)
(* x < D*D and Math.sqrt(x) > 1.5*D is 4*x > 9*D*D.                        *)
(* JavaScript runs each synchronous stretch of code to completion, so one  *)
(* action is one stretch between two awaits / callbacks.                   *)
(***************************************************************************)
EXTENDS Integers, Sequences, FiniteSets, Bags, TLC

VARIABLES
    \* the camera handed to update()
    cam,            \* camera.position (x, y)
    far,            \* camera.far
    \* CesiumTerrain
    variant,        \* which CesiumTerrain file is in use: "A" or "B"
    provider,       \* terrainProvider initialisation: "pending", "ready", "failed"
    tiles,          \* CesiumTerrain.tiles: key -> mesh
    loadingTiles,   \* CesiumTerrain.loadingTiles: set of keys
    jobs,           \* createTerrainTile calls suspended at an await (a bag)
    scene,          \* terrain meshes attached to the scene (a bag)
    failedKeys,     \* history: the keys whose createTerrainTile call failed
                    \* since the camera last moved
    sampledPositions, \* CesiumTerrain.sampledPositions: cache key -> elevation
    calls,          \* the elevation queries made so far, by number
    clock,          \* history: orders the starts and ends of the queries
    \* Tile
    tLoading,       \* Tile.loading, per tile
    tLoaded,        \* Tile.loaded, per tile
    tGeom,          \* tileMesh.geometry: "empty", "live" or "disposed"
    tBvh,           \* tileMesh.geometry.boundsTree is set
    tMap,           \* tileMesh.material.map: "none" or "live"
    tWire,          \* tileMesh.material.wireframe
    tScene,         \* the tiles whose tileMesh is attached to the scene
    fetchQueue,     \* terrain.fetchQueue
    loads,          \* loader requests in flight (a bag)
    bvhJobs,        \* Tile.bvhWorker.generate promises pending (a bag)
    loadCount,      \* Tile.loadCount
    dispatched,     \* number of load() calls so far
    evicted,        \* history: tiles evicted and not yet loading again
    \* SimpleTerrain
    sTiles,         \* SimpleTerrain.tiles: key -> mesh
    sScene          \* the meshes SimpleTerrain added to the scene (a bag)

varsV == <<cam, far>>
varsC == <<variant, provider, tiles, loadingTiles, jobs, scene, failedKeys>>
varsS == <<sampledPositions, calls, clock>>
varsT == <<tLoading, tLoaded, tGeom, tBvh, tMap, tWire, tScene, fetchQueue,
           loads, bvhJobs, loadCount, dispatched, evicted>>
varsP == <<sTiles, sScene>>
vars == <<varsV, varsC, varsS, varsT, varsP>>

\* what the actions of one component leave alone
restC == <<varsV, varsS, varsT, varsP>>
restS == <<varsV, tiles, loadingTiles, jobs, scene, failedKeys, varsT, varsP>>
restT == <<varsV, varsC, varsS, varsP>>
restP == <<varsV, varsC, varsS, varsT>>

---------------------------------------------------------------------------
(* Program constants *)

\* bound of the model: the number of load() calls the queue dispatches
MaxLoads == 3

\* bound of the model: the number of elevation queries
MaxCalls == 2

tileSize == 12750
ViewCapA == 50000
ViewCapB == 75000

(* Inputs of the model: camera positions and far planes.  The far planes   *)
(* are below tileSize so that one update needs a handful of tiles.         *)
CamPositions ==
    { [x |-> 0, y |-> 0], [x |-> 9000, y |-> 0], [x |-> 12750, y |-> 0],
      [x |-> -12750, y |-> 0], [x |-> 0, y |-> -9000] }
FarValues == {8000, 10000}

---------------------------------------------------------------------------
(* Arithmetic of update() *)

\* Math.round(x / s) for integers, s > 0: halves round towards +infinity
Round(x, s) == (2 * x + s) \div (2 * s)

\* Math.ceil(d / s) for positive integers
Ceil(d, s) == (d + s - 1) \div s

Min(a, b) == IF a < b THEN a ELSE b

\* Math.pow(e - camEast, 2) + Math.pow(n - camNorth, 2)
DistSq(e, n, c) == (e - c.x) * (e - c.x) + (n - c.y) * (n - c.y)

\* Math.min(camera.far, 50000) resp. Math.min(camera.far, 75000)
ViewDistance(v, f) == Min(f, IF v = "A" THEN ViewCapA ELSE ViewCapB)

\* distance < viewDistance
WithinView_EvictRadius(dsq, D) == dsq < (9 * D * D) \div 4
WithinView(dsq, D) == dsq < D * D

\* distance > viewDistance * 1.5, i.e. 4 d^2 > 9 D^2, written so that the
\* products stay below 2^31
BeyondEvict(dsq, D) == dsq > (9 * D * D) \div 4

---------------------------------------------------------------------------
(* Tile keys.  A key is the string `${east}-${north}`.  A string is        *)
(* modelled as a sequence of tokens: Dash for the character '-', and a     *)
(* natural number for a maximal run of digits.                             *)

Dash == -1

\* `${n}`: a minus sign for a negative number, then its digits
NumStr(n) == IF n < 0 THEN <<Dash, -n>> ELSE <<n>>

TileKey(e, n) == NumStr(e) \o <<Dash>> \o NumStr(n)

\* key.split('-')
RECURSIVE SplitDash(_)
SplitDash(s) ==
    IF \A i \in 1..Len(s) : s[i] # Dash
    THEN <<s>>
    ELSE LET i == CHOOSE j \in 1..Len(s) :
                      s[j] = Dash /\ \A h \in 1..(j - 1) : s[h] # Dash
         IN  <<SubSeq(s, 1, i - 1)>> \o SplitDash(SubSeq(s, i + 1, Len(s)))

\* Number(str): the empty string is 0, a run of digits is its value
Number(str) == IF str = <<>> THEN 0 ELSE str[1]

\* const [east, north] = key.split('-').map(Number)
DecodeKey(key) ==
    LET parts == SplitDash(key)
    IN  [e |-> Number(parts[1]), n |-> Number(parts[2])]

---------------------------------------------------------------------------
(* CesiumTerrain.createTerrainTile: the synchronous head *)

\* this.tiles.has(tileKey) || this.loadingTiles.has(tileKey)
AlreadyTracked_TilesOnly(k, loading) == k \in DOMAIN tiles
AlreadyTracked_LoadingOnly(k, loading) == k \in loading
AlreadyTracked(k, loading) == k \in DOMAIN tiles \/ k \in loading

\* where the call suspends first: variant A awaits the provider promise;
\* variant B sleeps 100 ms when terrainProvider is still null
FirstAwait ==
    IF variant = "B" /\ provider # "ready" THEN "timeout" ELSE "provider"

\* one call createTerrainTile(c.e, c.n, tileSize) up to its first await;
\* st = [loading, jobs] is the state the loop of update() threads through
StartTile(st, c) ==
    LET k == TileKey(c.e, c.n)
    IN  IF AlreadyTracked(k, st.loading)
        THEN st
        ELSE [loading |-> st.loading \cup {k},
              jobs    |-> st.jobs (+) SetToBag({[key |-> k, e |-> c.e, n |-> c.n,
                                                 pc |-> FirstAwait]})]

RECURSIVE StartAll(_, _)
StartAll(cs, st) ==
    IF cs = <<>> THEN st ELSE StartAll(Tail(cs), StartTile(st, Head(cs)))

---------------------------------------------------------------------------
(* CesiumTerrain.update *)

\* the (dy, dx) loops: the candidates in loop order
Candidates(c, S, D) ==
    LET n  == Ceil(D, S)
        w  == 2 * n + 1
        cE == Round(c.x, S) * S
        cN == Round(c.y, S) * S
    IN  [i \in 1..(w * w) |->
            [e |-> cE + (((i - 1) % w) - n) * S,
             n |-> cN + (((i - 1) \div w) - n) * S]]

\* the candidates that pass `distance < viewDistance`, in loop order
Needed(c, S, D) ==
    LET InView(t) == WithinView(DistSq(t.e, t.n, c), D)
    IN  SelectSeq(Candidates(c, S, D), InView)

\* the keys whose decoded centre is farther than 1.5 * viewDistance
TilesToRemove(c, D) ==
    {k \in DOMAIN tiles :
        LET p == DecodeKey(k) IN BeyondEvict(DistSq(p.e, p.n, c), D)}

\* the values update receives as showWireFrame
ShowValues == {"undefined", "true", "false"}

\* the scene's entry for a tile's mesh: the object, whatever its material
MeshOf(tile) == [e |-> tile.e, n |-> tile.n]

\* if (showWireFrame !== undefined) tile.mesh.material.wireframe = showWireFrame
SetWireframe_Always(tile, show) == [tile EXCEPT !.wire = show]
SetWireframe(tile, show) ==
    IF show # "undefined" THEN [tile EXCEPT !.wire = show] ELSE tile

\* one pass of the eviction loop over the entry of key k: the entry is
\* disposed and marked for removal, or else its wireframe flag is set
SweepTile(k, show, gone) ==
    IF k \in gone
    THEN [removed |-> TRUE, tile |-> tiles[k]]
    ELSE [removed |-> FALSE, tile |-> SetWireframe(tiles[k], show)]

CesiumUpdate(show) ==
    LET D       == ViewDistance(variant, far)
        started == StartAll(Needed(cam, tileSize, D),
                            [loading |-> loadingTiles, jobs |-> jobs])
        gone    == TilesToRemove(cam, D)
    IN  /\ loadingTiles' = started.loading
        /\ jobs' = started.jobs
        /\ scene' = scene (-) SetToBag({MeshOf(tiles[k]) : k \in gone})
        /\ tiles' = [k \in {h \in DOMAIN tiles : ~SweepTile(h, show, gone).removed} |->
                         SweepTile(k, show, gone).tile]
        /\ UNCHANGED <<restC, failedKeys, variant, provider>>

CesiumUpdateStep == \E show \in ShowValues : CesiumUpdate(show)

\* the application moves the camera between frames
MoveCamera ==
    /\ \E p \in CamPositions \ {cam} : cam' = p
    /\ failedKeys' = {}
    /\ UNCHANGED <<far, variant, provider, tiles, loadingTiles, jobs, scene,
                   varsS, varsT, varsP>>

---------------------------------------------------------------------------
(* initializeCesium: the terrain provider becomes available, or never does *)

ProviderReady ==
    /\ provider = "pending"
    /\ provider' = "ready"
    /\ UNCHANGED <<restC, failedKeys, variant, tiles, loadingTiles, jobs, scene>>

ProviderFail ==
    /\ provider = "pending"
    /\ provider' = "failed"
    /\ UNCHANGED <<restC, failedKeys, variant, tiles, loadingTiles, jobs, scene>>

---------------------------------------------------------------------------
(* createTerrainTile: the continuations of a suspended call *)

Advance(j, pc) == (jobs (-) SetToBag({j})) (+) SetToBag({[j EXCEPT !.pc = pc]})

\* catch / finally: this.loadingTiles.delete(tileKey)
JobAbandon_KeepKey(j) ==
    /\ jobs' = jobs (-) SetToBag({j})
    /\ failedKeys' = failedKeys \cup {j.key}
    /\ UNCHANGED <<restC, variant, provider, tiles, loadingTiles, scene>>
JobAbandon(j) ==
    /\ jobs' = jobs (-) SetToBag({j})
    /\ loadingTiles' = loadingTiles \ {j.key}
    /\ failedKeys' = failedKeys \cup {j.key}
    /\ UNCHANGED <<restC, variant, provider, tiles, scene>>

\* variant B: the 100 ms sleep is over
JobTimeout_NoCleanup(j) ==
    /\ j.pc = "timeout"
    /\ IF provider # "ready"
       THEN /\ jobs' = jobs (-) SetToBag({j})
            /\ failedKeys' = failedKeys \cup {j.key}
            /\ UNCHANGED <<restC, variant, provider, tiles, loadingTiles, scene>>
       ELSE /\ jobs' = Advance(j, "provider")
            /\ UNCHANGED <<restC, failedKeys, variant, provider, tiles,
                           loadingTiles, scene>>
JobTimeout(j) ==
    /\ j.pc = "timeout"
    /\ IF provider # "ready"
       THEN JobAbandon(j)
       ELSE /\ jobs' = Advance(j, "provider")
            /\ UNCHANGED <<restC, failedKeys, variant, provider, tiles, loadingTiles, scene>>

\* `await this.terrainProvider` resumes; the elevation request is issued
JobProvider(j) ==
    /\ j.pc = "provider"
    /\ provider # "pending" \/ variant = "B"
    /\ jobs' = Advance(j, "sample")
    /\ UNCHANGED <<restC, failedKeys, variant, provider, tiles, loadingTiles, scene>>

\* sampleTerrainMostDetailed resolved: the geometry is built and the
\* texture requested
JobSampled(j) ==
    /\ j.pc = "sample"
    /\ provider = "ready"
    /\ jobs' = Advance(j, "texture")
    /\ UNCHANGED <<restC, failedKeys, variant, provider, tiles, loadingTiles, scene>>

\* sampleTerrainMostDetailed rejected (always so for a null provider)
JobSampleFailed(j) ==
    /\ j.pc = "sample"
    /\ JobAbandon(j)

\* the texture is there: scene.add(mesh), tiles.set(tileKey, ...), finally
JobInstall_Replace(j) ==
    /\ j.pc = "texture"
    /\ LET mesh == [e |-> j.e, n |-> j.n, wire |-> "false"]
       IN  /\ scene' = scene (+) SetToBag({MeshOf(mesh)})
           /\ tiles' = [x \in {j.key} |-> mesh]
    /\ jobs' = jobs (-) SetToBag({j})
    /\ loadingTiles' = loadingTiles \ {j.key}
    /\ UNCHANGED <<restC, failedKeys, variant, provider>>
JobInstall(j) ==
    /\ j.pc = "texture"
    /\ LET mesh == [e |-> j.e, n |-> j.n, wire |-> "false"]
           k    == j.key
       IN  /\ scene' = scene (+) SetToBag({MeshOf(mesh)})
           /\ tiles' = [x \in (DOMAIN tiles) \cup {k} |->
                            IF x = k THEN mesh ELSE tiles[x]]
    /\ jobs' = jobs (-) SetToBag({j})
    /\ loadingTiles' = loadingTiles \ {j.key}
    /\ UNCHANGED <<restC, failedKeys, variant, provider>>

\* createTileTexture / createSatelliteTexture threw
JobTextureFailed(j) ==
    /\ j.pc = "texture"
    /\ JobAbandon(j)

JobTimeoutStep == \E j \in BagToSet(jobs) : JobTimeout(j)
JobProviderStep == \E j \in BagToSet(jobs) : JobProvider(j)
JobSampledStep == \E j \in BagToSet(jobs) : JobSampled(j)
JobSampleFailedStep == \E j \in BagToSet(jobs) : JobSampleFailed(j)
JobInstallStep == \E j \in BagToSet(jobs) : JobInstall(j)
JobTextureFailedStep == \E j \in BagToSet(jobs) : JobTextureFailed(j)

---------------------------------------------------------------------------
(* The elevation sampler: getElevation (variant A, the arguments are      *)
(* longitude and latitude) and getElevationAtUTM (variant B, east and      *)
(* north).  A coordinate is an integer number of tenths of the last digit  *)
(* the cache key keeps (toFixed(6) resp. toFixed(1)).                      *)

\* the points queried
SamplePoints == { <<1004, 50>>, <<996, 50>>, <<1006, 50>>, <<-4, 50>> }

\* what the provider can answer: no height (undefined), or a height
NoHeight == -1000000
Heights == {NoHeight, 120, 250}

\* x.toFixed(digits): the sign, then the magnitude rounded to the last digit
\* kept, halves up; "-0.0" and "0.0" are different strings
ToFixed(x) ==
    LET a == IF x < 0 THEN -x ELSE x
    IN  [neg |-> x < 0, mag |-> (2 * a + 10) \div 20]

\* cacheKey
CacheKey(pt) == <<ToFixed(pt[1]), ToFixed(pt[2])>>

\* updatedPositions[0].height || 0
OrZero(h) == IF h = NoHeight \/ h = 0 THEN 0 ELSE h

\* this.sampledPositions.set(cacheKey, elevation)
CacheSet_Forgotten(m, k, v) == m
CacheSet_Single(m, k, v) == [x \in {k} |-> v]
CacheSet(m, k, v) == [x \in (DOMAIN m) \cup {k} |-> IF x = k THEN v ELSE m[x]]

IdleCall ==
    [pc |-> "idle", pt |-> <<0, 0>>, asked |-> FALSE, ret |-> 0, threw |-> FALSE,
     outcome |-> "none", startAt |-> 0, doneAt |-> 0]

\* `return v` of the async function
Return(c, v, how) ==
    [calls[c] EXCEPT !.pc = "done", !.ret = v, !.outcome = how, !.doneAt = clock + 1]

\* catch (error) { console.warn(...); return 0 }
Caught_Rethrown(c) ==
    [calls[c] EXCEPT !.pc = "done", !.threw = TRUE, !.outcome = "failed",
                     !.doneAt = clock + 1]
Caught(c) == Return(c, 0, "failed")

\* a query starts and runs to its first await or to its return
SampleStart ==
    \E c \in 1..MaxCalls, pt \in SamplePoints :
        /\ calls[c].pc = "idle"
        /\ \A b \in 1..(c - 1) : calls[b].pc # "idle"
        /\ LET k  == CacheKey(pt)
               me == [calls[c] EXCEPT !.pt = pt, !.startAt = clock + 1]
           IN  calls' = [calls EXCEPT ![c] =
                   IF k \in DOMAIN sampledPositions
                   THEN [me EXCEPT !.pc = "done", !.ret = sampledPositions[k],
                                   !.outcome = "hit", !.doneAt = clock + 1]
                   ELSE IF variant = "B" /\ provider # "ready"
                   THEN [me EXCEPT !.pc = "done", !.ret = 0,
                                   !.outcome = "noprovider", !.doneAt = clock + 1]
                   ELSE [me EXCEPT !.pc = "provider"]]
        /\ clock' = clock + 1
        /\ UNCHANGED <<restS, variant, provider, sampledPositions>>

\* `await this.terrainProvider` resumes: the provider is asked, or, with a
\* null provider (variant A after a failed initialisation), the call throws
SampleProvider(c) ==
    /\ calls[c].pc = "provider"
    /\ provider # "pending" \/ variant = "B"
    /\ IF provider = "ready"
       THEN /\ calls' = [calls EXCEPT ![c].pc = "sample", ![c].asked = TRUE]
            /\ UNCHANGED clock
       ELSE /\ calls' = [calls EXCEPT ![c] = Caught(c)]
            /\ clock' = clock + 1
    /\ UNCHANGED <<restS, variant, provider, sampledPositions>>

\* sampleTerrainMostDetailed resolves with height h
SampleResolved(c, h) ==
    /\ calls[c].pc = "sample"
    /\ sampledPositions' = CacheSet(sampledPositions, CacheKey(calls[c].pt), OrZero(h))
    /\ calls' = [calls EXCEPT ![c] = Return(c, OrZero(h), "sampled")]
    /\ clock' = clock + 1
    /\ UNCHANGED <<restS, variant, provider>>

\* sampleTerrainMostDetailed rejects
SampleRejected_StoresZero(c) ==
    /\ calls[c].pc = "sample"
    /\ sampledPositions' = CacheSet(sampledPositions, CacheKey(calls[c].pt), 0)
    /\ calls' = [calls EXCEPT ![c] = Caught(c)]
    /\ clock' = clock + 1
    /\ UNCHANGED <<restS, variant, provider>>
SampleRejected(c) ==
    /\ calls[c].pc = "sample"
    /\ calls' = [calls EXCEPT ![c] = Caught(c)]
    /\ clock' = clock + 1
    /\ UNCHANGED <<restS, variant, provider, sampledPositions>>

SampleProviderStep == \E c \in 1..MaxCalls : SampleProvider(c)
SampleResolvedStep == \E c \in 1..MaxCalls, h \in Heights : SampleResolved(c, h)
SampleRejectedStep == \E c \in 1..MaxCalls : SampleRejected(c)

---------------------------------------------------------------------------
(* Tile (src/unnamed/part_001).  The Terrain that owns the tiles and     *)
(* drains fetchQueue is not part of the sources: the tiles exist from the  *)
(* start, and Dispatch follows the description of the fetch queue (pop the *)
(* earliest tile and call its load()).                                     *)

TILE_EXTENTS == 12750

\* lowerLeft of the tiles
TileIds == { [x |-> 0, y |-> 0], [x |-> -12750, y |-> 0] }

\* boundingSphere.center
Center(t) == [x |-> t.x + TILE_EXTENTS \div 2, y |-> t.y + TILE_EXTENTS \div 2]

\* dist, the squared distance of the centre from the camera
TileDist(t, c) == DistSq(Center(t).x, Center(t).y, c)

\* visible = dist < camera.far * camera.far
Visible_Margin(dist, f) == dist < (9 * f * f) \div 4
Visible(dist, f) == dist < f * f

\* visible && !this.loading && !this.loaded
NeedsLoad_IgnoreLoading(visible, loading, loaded) == visible /\ ~loaded
NeedsLoad_IgnoreLoaded(visible, loading, loaded) == visible /\ ~loading
NeedsLoad(visible, loading, loaded) == visible /\ ~loading /\ ~loaded

\* !visible && !this.loading && this.loaded
NeedsEvict(visible, loading, loaded) == ~visible /\ ~loading /\ loaded

\* Tile.update(camera, showWireFrame)
TileUpdate(t, show) ==
    LET visible == Visible(TileDist(t, cam), far)
        push    == NeedsLoad(visible, tLoading[t], tLoaded[t])
        loading == IF push THEN TRUE ELSE tLoading[t]
        evict   == NeedsEvict(visible, loading, tLoaded[t])
    IN  /\ tWire' = IF tLoaded[t] THEN [tWire EXCEPT ![t] = show] ELSE tWire
        /\ tLoading' = [tLoading EXCEPT ![t] = loading]
        /\ fetchQueue' = IF push THEN Append(fetchQueue, t) ELSE fetchQueue
        /\ IF evict
           THEN /\ tScene' = tScene \ {t}
                /\ tMap' = [tMap EXCEPT ![t] = "none"]
                /\ tGeom' = [tGeom EXCEPT ![t] = "disposed"]
                /\ tBvh' = [tBvh EXCEPT ![t] = FALSE]
                /\ tLoaded' = [tLoaded EXCEPT ![t] = FALSE]
                /\ loadCount' = loadCount - 1
                /\ evicted' = evicted \cup {t}
           ELSE UNCHANGED <<tScene, tMap, tGeom, tBvh, tLoaded, loadCount, evicted>>
        /\ UNCHANGED <<restT, loads, bvhJobs, dispatched>>

TileUpdateStep == \E t \in TileIds, show \in BOOLEAN : TileUpdate(t, show)

\* the queue is drained: the earliest tile is popped and its load() called,
\* which issues the geometry request
Dispatch ==
    /\ fetchQueue # << >>
    /\ dispatched < MaxLoads
    /\ fetchQueue' = Tail(fetchQueue)
    /\ loads' = loads (+) SetToBag({[tile |-> Head(fetchQueue), stage |-> "glb"]})
    /\ dispatched' = dispatched + 1
    /\ evicted' = evicted \ {Head(fetchQueue)}
    /\ UNCHANGED <<restT, tLoading, tLoaded, tGeom, tBvh, tMap, tWire, tScene,
                   bvhJobs, loadCount>>

\* gltfLoader onLoad: the geometry object is replaced, the BVH build is
\* started and the texture request issued
GlbLoaded(r) ==
    /\ r.stage = "glb"
    /\ tGeom' = [tGeom EXCEPT ![r.tile] = "live"]
    /\ tBvh' = [tBvh EXCEPT ![r.tile] = FALSE]
    /\ bvhJobs' = bvhJobs (+) SetToBag({[tile |-> r.tile]})
    /\ loads' = (loads (-) SetToBag({r})) (+)
                    SetToBag({[tile |-> r.tile, stage |-> "ktx2"]})
    /\ UNCHANGED <<restT, tLoading, tLoaded, tMap, tWire, tScene, fetchQueue,
                   loadCount, dispatched, evicted>>

\* the flags a failed request leaves: this.loading = false
FailFlags_KeepLoading(t) == tLoading
FailFlags(t) == [tLoading EXCEPT ![t] = FALSE]

\* gltfLoader onError
GlbFailed_TextureAnyway(r) ==
    /\ r.stage = "glb"
    /\ loads' = (loads (-) SetToBag({r})) (+)
                    SetToBag({[tile |-> r.tile, stage |-> "ktx2"]})
    /\ UNCHANGED <<restT, tLoading, tLoaded, tGeom, tBvh, tMap, tWire, tScene,
                   fetchQueue, bvhJobs, loadCount, dispatched, evicted>>
GlbFailed(r) ==
    /\ r.stage = "glb"
    /\ tLoading' = FailFlags(r.tile)
    /\ loads' = loads (-) SetToBag({r})
    /\ UNCHANGED <<restT, tLoaded, tGeom, tBvh, tMap, tWire, tScene, fetchQueue,
                   bvhJobs, loadCount, dispatched, evicted>>

\* ktx2Loader onLoad
Ktx2Loaded(r) ==
    /\ r.stage = "ktx2"
    /\ tMap' = [tMap EXCEPT ![r.tile] = "live"]
    /\ tScene' = tScene \cup {r.tile}
    /\ tLoading' = [tLoading EXCEPT ![r.tile] = FALSE]
    /\ tLoaded' = [tLoaded EXCEPT ![r.tile] = TRUE]
    /\ loadCount' = loadCount + 1
    /\ loads' = loads (-) SetToBag({r})
    /\ UNCHANGED <<restT, tGeom, tBvh, tWire, fetchQueue, bvhJobs, dispatched,
                   evicted>>

\* ktx2Loader onError
Ktx2Failed(r) ==
    /\ r.stage = "ktx2"
    /\ tLoading' = FailFlags(r.tile)
    /\ loads' = loads (-) SetToBag({r})
    /\ UNCHANGED <<restT, tLoaded, tGeom, tBvh, tMap, tWire, tScene, fetchQueue,
                   bvhJobs, loadCount, dispatched, evicted>>

\* the BVH promise resolves: this.tileMesh.geometry.boundsTree = bvh
BvhDone(b) ==
    /\ tBvh' = [tBvh EXCEPT ![b.tile] = TRUE]
    /\ bvhJobs' = bvhJobs (-) SetToBag({b})
    /\ UNCHANGED <<restT, tLoading, tLoaded, tGeom, tMap, tWire, tScene,
                   fetchQueue, loads, loadCount, dispatched, evicted>>

\* the BVH promise rejects: nothing handles it
BvhFailed(b) ==
    /\ bvhJobs' = bvhJobs (-) SetToBag({b})
    /\ UNCHANGED <<restT, tLoading, tLoaded, tGeom, tBvh, tMap, tWire, tScene,
                   fetchQueue, loads, loadCount, dispatched, evicted>>

GlbLoadedStep == \E r \in BagToSet(loads) : GlbLoaded(r)
GlbFailedStep == \E r \in BagToSet(loads) : GlbFailed(r)
Ktx2LoadedStep == \E r \in BagToSet(loads) : Ktx2Loaded(r)
Ktx2FailedStep == \E r \in BagToSet(loads) : Ktx2Failed(r)
BvhDoneStep == \E b \in BagToSet(bvhJobs) : BvhDone(b)
BvhFailedStep == \E b \in BagToSet(bvhJobs) : BvhFailed(b)

---------------------------------------------------------------------------
(* SimpleTerrain (src/unnamed/part_001), the terrain the application       *)
(* creates: createTerrainTile is synchronous, update examines the 5 x 5     *)
(* grid coordinates around the snapped camera position.                     *)

simpleTileSize == 10000
GridReach == 2

\* where the flight takes the camera
FlightPath ==
    { [x |-> 0, y |-> 0], [x |-> 30000, y |-> 0], [x |-> 60000, y |-> 0],
      [x |-> 0, y |-> -30000], [x |-> 4000, y |-> -4000] }

\* the base ground plane the constructor adds to the scene
BaseGround == [kind |-> "ground", e |-> 0, n |-> 0]

\* the scene's entry for the mesh of a tile
SimpleMesh(tile) == [kind |-> "tile", e |-> tile.e, n |-> tile.n]

\* the (dx, dy) loops: the coordinates in loop order
SimpleCandidates(c) ==
    LET S == simpleTileSize
        w == 2 * GridReach + 1
    IN  [i \in 1..(w * w) |->
            [e |-> Round(c.x, S) * S + (((i - 1) \div w) - GridReach) * S,
             n |-> Round(c.y, S) * S + (((i - 1) % w) - GridReach) * S]]

\* dist < gridDist, gridDist = tileSize * 1.5
InGrid(t, c) == DistSq(t.e, t.n, c) < (9 * simpleTileSize * simpleTileSize) \div 4

\* createTerrainTile(centerEast, centerNorth); st = [tiles, scene]
SimpleCreate_Untracked(st, c) ==
    LET k    == TileKey(c.e, c.n)
        tile == [e |-> c.e, n |-> c.n, wire |-> "false"]
    IN  [tiles |-> [x \in (DOMAIN st.tiles) \cup {k} |->
                        IF x = k THEN tile ELSE st.tiles[x]],
         scene |-> st.scene (+) SetToBag({SimpleMesh(tile)})]
SimpleCreate(st, c) ==
    LET k    == TileKey(c.e, c.n)
        tile == [e |-> c.e, n |-> c.n, wire |-> "false"]
    IN  IF k \in DOMAIN st.tiles
        THEN st
        ELSE [tiles |-> [x \in (DOMAIN st.tiles) \cup {k} |->
                            IF x = k THEN tile ELSE st.tiles[x]],
              scene |-> st.scene (+) SetToBag({SimpleMesh(tile)})]

RECURSIVE SimpleCreateAll(_, _, _)
SimpleCreateAll(cs, c, st) ==
    IF cs = << >> THEN st
    ELSE SimpleCreateAll(Tail(cs), c,
                         IF InGrid(Head(cs), c) THEN SimpleCreate(st, Head(cs)) ELSE st)

\* SimpleTerrain.update(camera, showWireFrame)
SimpleUpdate(show) ==
    LET made == SimpleCreateAll(SimpleCandidates(cam), cam,
                                [tiles |-> sTiles, scene |-> sScene])
    IN  /\ sTiles' = [k \in DOMAIN made.tiles |-> SetWireframe(made.tiles[k], show)]
        /\ sScene' = made.scene
        /\ UNCHANGED restP

SimpleUpdateStep == \E show \in ShowValues : SimpleUpdate(show)

\* the aircraft, and the camera with it, flies on between two frames
Fly ==
    /\ \E p \in FlightPath \ {cam} : cam' = p
    /\ UNCHANGED <<far, varsC, varsS, varsT, varsP>>

---------------------------------------------------------------------------
(* Specifications *)

InitV ==
    /\ cam \in CamPositions
    /\ far \in FarValues

\* the state after `new CesiumTerrain(scene)`
InitC ==
    /\ provider = "pending"
    /\ tiles = << >>
    /\ loadingTiles = {}
    /\ jobs = EmptyBag
    /\ scene = EmptyBag
    /\ failedKeys = {}

InitS ==
    /\ sampledPositions = << >>
    /\ calls = [c \in 1..MaxCalls |-> IdleCall]
    /\ clock = 0

\* the state after `new Tile(...)` for every tile
InitT ==
    /\ tLoading = [t \in TileIds |-> FALSE]
    /\ tLoaded = [t \in TileIds |-> FALSE]
    /\ tGeom = [t \in TileIds |-> "empty"]
    /\ tBvh = [t \in TileIds |-> FALSE]
    /\ tMap = [t \in TileIds |-> "none"]
    /\ tWire = [t \in TileIds |-> FALSE]
    /\ tScene = {}
    /\ fetchQueue = << >>
    /\ loads = EmptyBag
    /\ bvhJobs = EmptyBag
    /\ loadCount = 0
    /\ dispatched = 0
    /\ evicted = {}

\* the state after `new SimpleTerrain(scene)`
InitP ==
    /\ sTiles = << >>
    /\ sScene = SetToBag({BaseGround})

NextC ==
    \/ CesiumUpdateStep
    \/ ProviderReady
    \/ ProviderFail
    \/ JobTimeoutStep
    \/ JobProviderStep
    \/ JobSampledStep
    \/ JobSampleFailedStep
    \/ JobInstallStep
    \/ JobTextureFailedStep

NextT ==
    \/ TileUpdateStep
    \/ Dispatch
    \/ GlbLoadedStep
    \/ GlbFailedStep
    \/ Ktx2LoadedStep
    \/ Ktx2FailedStep
    \/ BvhDoneStep
    \/ BvhFailedStep

\* CesiumTerrain under a moving camera
NextCesium == NextC \/ MoveCamera

InitCesium == InitV /\ variant \in {"A", "B"} /\ InitC /\ InitS /\ InitT /\ InitP

SpecCesium == InitCesium /\ [][NextCesium]_vars

\* the tiles of the pre-baked terrain under a moving camera
NextTile == NextT \/ MoveCamera

InitTile == InitV /\ variant = "A" /\ InitC /\ InitS /\ InitT /\ InitP

SpecTile == InitTile /\ [][NextTile]_vars

\* the elevation sampler of CesiumTerrain, for a camera at rest
NextSampler ==
    \/ ProviderReady
    \/ ProviderFail
    \/ SampleStart
    \/ SampleProviderStep
    \/ SampleResolvedStep
    \/ SampleRejectedStep

InitSampler ==
    /\ cam = [x |-> 0, y |-> 0] /\ far = 8000
    /\ variant \in {"A", "B"} /\ InitC /\ InitS /\ InitT /\ InitP

SpecSampler == InitSampler /\ [][NextSampler]_vars

\* both tile streamers for a camera at rest: loads fail and are retried
NextRetry == NextC \/ NextT

InitRetry ==
    /\ cam \in CamPositions /\ far = 10000
    /\ variant \in {"A", "B"} /\ InitC /\ InitS /\ InitT /\ InitP

SpecRetry == InitRetry /\ [][NextRetry]_vars

\* SimpleTerrain along a flight
NextSimple == SimpleUpdateStep \/ Fly

InitSimple ==
    /\ cam \in FlightPath /\ far \in FarValues
    /\ variant = "A" /\ InitC /\ InitS /\ InitT /\ InitP

SpecSimple == InitSimple /\ [][NextSimple]_vars

---------------------------------------------------------------------------
(* Claims on CesiumTerrain *)

\* the createTerrainTile calls in flight for key k
InFlight(k) == {j \in BagToSet(jobs) : j.key = k}

\* the meshes of the scene created for key k
MeshesOf(k) == {m \in BagToSet(scene) : TileKey(m.e, m.n) = k}

\* C1: every key has at most one createTerrainTile call in flight, no call
\* is in flight for a key that is in tiles, and the scene holds at most one
\* terrain mesh per key.
C1_Uniqueness ==
    /\ \A j \in BagToSet(jobs) :
          /\ CopiesIn(j, jobs) = 1
          /\ InFlight(j.key) = {j}
          /\ j.key \notin DOMAIN tiles
    /\ \A m \in BagToSet(scene) :
          /\ CopiesIn(m, scene) = 1
          /\ MeshesOf(TileKey(m.e, m.n)) = {m}

\* a tile is installed and in the scene while, after a later update, the
\* call for another key is in flight
C1_Witness ==
    \E k \in DOMAIN tiles :
        /\ CopiesIn(MeshOf(tiles[k]), scene) = 1
        /\ \E j \in BagToSet(jobs) : j.key # k /\ j.pc = "texture"

\* C6 (as claimed): in one update with view distance D, a tracked tile whose
\* centre is farther than 1.5 D from the camera leaves tiles and the scene,
\* one within 1.5 D stays in tiles, and one between D and 1.5 D is neither
\* evicted nor created again, whatever the sign of its coordinates.
C6_Hysteresis ==
    [][CesiumUpdateStep =>
        LET D == ViewDistance(variant, far)
        IN  \A k \in DOMAIN tiles :
              LET m   == MeshOf(tiles[k])
                  dsq == DistSq(m.e, m.n, cam)
                  out == dsq > (9 * D * D) \div 4
              IN  /\ out => k \notin DOMAIN tiles' /\ ~BagIn(m, scene')
                  /\ ~out => k \in DOMAIN tiles'
                  /\ dsq >= D * D /\ ~out
                        => /\ k \in DOMAIN tiles'
                           /\ MeshOf(tiles'[k]) = m
                           /\ BagIn(m, scene')
                           /\ k \notin loadingTiles'
    ]_vars

\* the grid coordinates one update must load: the multiples of S around the
\* rounded viewpoint, at most ceil(D / S) steps away on each axis, strictly
\* closer than D
ExpectedCoords(c, S, D) ==
    LET r  == CHOOSE q \in 0..(D \div S + 1) : q * S >= D /\ (q - 1) * S < D
        Near(x) == LET q == x \div S IN IF 2 * (x - q * S) < S THEN q ELSE q + 1
        cx == Near(c.x) * S
        cy == Near(c.y) * S
    IN  {t \in {[e |-> cx + dx * S, n |-> cy + dy * S] : dx \in -r..r, dy \in -r..r} :
            (t.e - c.x) * (t.e - c.x) + (t.n - c.y) * (t.n - c.y) < D * D}

Range(f) == {f[i] : i \in DOMAIN f}

\* C10: an update of an empty CesiumTerrain starts one load for each
\* expected coordinate and for no other; for viewpoint (0,0), S = 1000 and
\* D = 2500 the loop selects 21 coordinates.
C10_FirstUpdate ==
    [][(tiles = << >> /\ loadingTiles = {} /\ jobs = EmptyBag /\ CesiumUpdateStep) =>
        LET want == ExpectedCoords(cam, tileSize, ViewDistance(variant, far))
            ex   == Needed([x |-> 0, y |-> 0], 1000, 2500)
        IN  /\ loadingTiles' = {TileKey(t.e, t.n) : t \in want}
            /\ Cardinality(loadingTiles') = Cardinality(want)
            /\ jobs' = SetToBag({[key |-> TileKey(t.e, t.n), e |-> t.e, n |-> t.n,
                                  pc |-> FirstAwait] : t \in want})
            /\ tiles' = << >>
            /\ Len(ex) = 21
            /\ Cardinality(Range(ex)) = 21
            /\ Range(ex) = ExpectedCoords([x |-> 0, y |-> 0], 1000, 2500)
    ]_vars

\* the first update at (9000, 0) with far = 10000 has started the loads of
\* the two tiles in range
C10_Witness ==
    /\ tiles = << >>
    /\ cam = [x |-> 9000, y |-> 0]
    /\ loadingTiles = {TileKey(0, 0), TileKey(12750, 0)}
    /\ \A j \in BagToSet(jobs) : j.pc = FirstAwait


\* C11 (as claimed): when an update with view distance D returns (the
\* viewpoint having moved before it), no tracked tile and no terrain mesh of
\* the scene lies farther than 1.5 D from the viewpoint, and a load has been
\* started for every coordinate closer than D that was neither tracked nor
\* loading.
C11_AfterMove ==
    [][CesiumUpdateStep =>
        LET D      == ViewDistance(variant, far)
            Far(m) == DistSq(m.e, m.n, cam') > (9 * D * D) \div 4
        IN  /\ \A k \in DOMAIN tiles' : ~Far(tiles'[k])
            /\ \A m \in BagToSet(scene') : ~Far(m)
            /\ \A t \in ExpectedCoords(cam', tileSize, D) :
                  LET k == TileKey(t.e, t.n)
                  IN  k \notin DOMAIN tiles /\ k \notin loadingTiles
                        => /\ k \in loadingTiles'
                           /\ CopiesIn([key |-> k, e |-> t.e, n |-> t.n,
                                        pc |-> FirstAwait], jobs') = 1
    ]_vars

\* C12 (as claimed): an update leaves every createTerrainTile call in flight
\* as it is, whatever the distance of its tile (no abort, no eviction while
\* loading); the call that completes installs its tile in tiles and in the
\* scene; and an update that finds an installed tile farther than 1.5 D from
\* the viewpoint removes it from tiles and from the scene.
C12_LoadThenEvict ==
    [][/\ CesiumUpdateStep =>
            /\ \A j \in BagToSet(jobs) :
                  CopiesIn(j, jobs') = CopiesIn(j, jobs) /\ j.key \in loadingTiles'
            /\ \A k \in DOMAIN tiles :
                  DistSq(tiles[k].e, tiles[k].n, cam)
                        > (9 * ViewDistance(variant, far) * ViewDistance(variant, far)) \div 4
                    => /\ k \notin DOMAIN tiles'
                       /\ ~BagIn(MeshOf(tiles[k]), scene')
       /\ \A j \in BagToSet(jobs) :
            JobInstall(j) =>
                /\ j.key \in DOMAIN tiles'
                /\ MeshOf(tiles'[j.key]) = [e |-> j.e, n |-> j.n]
                /\ BagIn([e |-> j.e, n |-> j.n], scene')
    ]_vars

\* C15 (as claimed): only update changes which keys are in tiles; a
\* createTerrainTile call that completes neither adds nor removes a key.
C15_UpdateSoleWriter ==
    [][DOMAIN tiles' # DOMAIN tiles => CesiumUpdateStep]_vars

\* C15 (amended): update only removes keys from tiles, and the only step that
\* adds a key is the completion of a createTerrainTile call, which adds its
\* own key (taken from loadingTiles), leaves every other entry as it is and
\* removes no key; no other step, a failing call included, changes tiles.
C15_WritersOfTiles ==
    [][tiles' # tiles =>
         \/ /\ DOMAIN tiles' \subseteq DOMAIN tiles
            /\ CesiumUpdateStep
         \/ /\ DOMAIN tiles \subseteq DOMAIN tiles'
            /\ \A k \in DOMAIN tiles : tiles'[k] = tiles[k]
            /\ \E j \in BagToSet(jobs) :
                  /\ JobInstall(j)
                  /\ DOMAIN tiles' = (DOMAIN tiles) \cup {j.key}
                  /\ j.key \notin DOMAIN tiles
                  /\ j.key \in loadingTiles /\ j.key \notin loadingTiles'
    ]_vars

\* a call that completed after the camera had left put its tile, which no
\* update would load, into tiles, next to a tile installed before
C15_Witness ==
    \E k, h \in DOMAIN tiles :
        /\ k # h
        /\ ~WithinView(DistSq(tiles[k].e, tiles[k].n, cam), ViewDistance(variant, far))
        /\ jobs = EmptyBag

\* C21 (as claimed): the key of every tile centre handed to
\* createTerrainTile, negative and zero coordinates included, decodes with
\* key.split('-').map(Number) to that centre, for the calls in flight and
\* for the entries of tiles.
C21_KeyRoundTrip ==
    /\ \A j \in BagToSet(jobs) :
          /\ j.key = TileKey(j.e, j.n)
          /\ DecodeKey(j.key) = [e |-> j.e, n |-> j.n]
    /\ \A k \in DOMAIN tiles :
          /\ k = TileKey(tiles[k].e, tiles[k].n)
          /\ DecodeKey(k) = [e |-> tiles[k].e, n |-> tiles[k].n]

\* C24: in every state between two synchronous stretches no key is both
\* in tiles and in loadingTiles.
C24_Disjoint == DOMAIN tiles \cap loadingTiles = {}

\* one key is installed while another is loading
C24_Witness ==
    /\ tiles # << >> /\ loadingTiles # {}
    /\ \E j \in BagToSet(jobs) : j.pc = "texture"

\* the terrain meshes of the entries of tiles, each once
TileMeshes == SetToBag({MeshOf(tiles[k]) : k \in DOMAIN tiles})

\* C25: the terrain meshes in the scene are exactly the meshes of the
\* entries of tiles, one per key: a mesh enters the scene in the step that
\* sets its entry and leaves it in the update that deletes the entry, so
\* the scene holds no mesh of a removed (disposed) tile.
C25_SceneIsTiles ==
    /\ scene = TileMeshes
    /\ \A k, h \in DOMAIN tiles : MeshOf(tiles[k]) = MeshOf(tiles[h]) => k = h

\* two tiles are installed and their two meshes are in the scene, one of
\* them kept from an earlier camera position: update would not ask for it
C25_Witness ==
    /\ Cardinality(DOMAIN tiles) = 2
    /\ \A k \in DOMAIN tiles : CopiesIn(MeshOf(tiles[k]), scene) = 1
    /\ \E k \in DOMAIN tiles :
          ~WithinView(DistSq(tiles[k].e, tiles[k].n, cam), ViewDistance(variant, far))

---------------------------------------------------------------------------
(* Claims on Tile *)

\* how often tile t is in the fetch queue
Queued(t) == Cardinality({i \in DOMAIN fetchQueue : fetchQueue[i] = t})

\* how many loader requests of tile t are in flight
Loading(t) ==
    CopiesIn([tile |-> t, stage |-> "glb"], loads)
        + CopiesIn([tile |-> t, stage |-> "ktx2"], loads)

\* C2: a tile that is queued or loading is not pushed again: from its push
\* to the end of the load the push leads to, a tile is exactly once in the
\* fetch queue or in a load, and its loading flag is set all that time.
C2_NoDoubleEnqueue ==
    \A t \in TileIds :
        /\ Queued(t) + Loading(t) <= 1
        /\ Queued(t) + Loading(t) = 1 <=> tLoading[t]

\* one tile is waiting for its texture while the other one is queued
C2_Witness ==
    \E t, u \in TileIds :
        /\ t # u
        /\ CopiesIn([tile |-> t, stage |-> "ktx2"], loads) = 1
        /\ Queued(u) = 1
        /\ tLoading[t] /\ tLoading[u]

\* C3 (as claimed): from its eviction until its next load begins a tile
\* holds no live geometry, no texture and no spatial index, however the
\* eviction interleaves with the BVH build of the earlier load.
C3_EvictedHoldsNothing ==
    \A t \in evicted : tGeom[t] # "live" /\ tMap[t] = "none" /\ ~tBvh[t]

\* C4 (as claimed): when the texture request of a tile fails after its
\* geometry was loaded and the BVH build started, the failure path leaves
\* the tile, back in the Unloaded state, without geometry or spatial index.
C4_FailureReleases ==
    [][\A r \in BagToSet(loads) :
         Ktx2Failed(r) =>
            /\ ~tLoading'[r.tile] /\ ~tLoaded'[r.tile]
            /\ tGeom'[r.tile] # "live"
            /\ ~tBvh'[r.tile]]_vars

\* C5: when the geometry request or the texture request of a tile fails,
\* the tile is left with loading = false and loaded = false, its mesh is
\* not in the scene, and Tile.loadCount is unchanged.
C5_FailureContained ==
    [][\A r \in BagToSet(loads) :
         (GlbFailed(r) \/ Ktx2Failed(r)) =>
            /\ ~tLoading'[r.tile] /\ ~tLoaded'[r.tile]
            /\ r.tile \notin tScene'
            /\ loadCount' = loadCount]_vars

\* a tile whose texture request failed after its geometry arrived
C5_Witness ==
    \E t \in TileIds :
        /\ ~tLoading[t] /\ ~tLoaded[t]
        /\ tGeom[t] = "live"
        /\ t \notin tScene
        /\ Loading(t) = 0

\* C7 (as claimed): a loaded tile whose centre is within 1.5 camera.far of
\* the camera stays loaded and attached to the scene.
C7_EvictionMargin ==
    [][\A t \in TileIds :
         tLoaded[t] /\ TileDist(t, cam) <= (9 * far * far) \div 4
            => tLoaded'[t] /\ t \in tScene']_vars

\* C7 (amended): there is no margin. A loaded tile stays loaded and attached
\* as long as its centre is closer than camera.far, and an update at a
\* distance of camera.far or more evicts it.
C7_EvictAtViewDistance ==
    [][\A t \in TileIds :
         /\ tLoaded[t] /\ TileDist(t, cam) < far * far
               => tLoaded'[t] /\ t \in tScene'
         /\ tLoaded[t] /\ TileDist(t, cam) >= far * far
                /\ (\E show \in BOOLEAN : TileUpdate(t, show))
               => ~tLoaded'[t] /\ t \notin tScene']_vars

\* a tile evicted at a distance between camera.far and 1.5 camera.far
C7_Witness ==
    \E t \in evicted :
        /\ ~tLoaded[t] /\ t \notin tScene
        /\ TileDist(t, cam) >= far * far
        /\ TileDist(t, cam) <= (9 * far * far) \div 4

\* the lifecycle state read from the flags of a tile
TileState(loading, loaded) ==
    IF loading /\ loaded THEN "Invalid"
    ELSE IF loading THEN "Loading"
    ELSE IF loaded THEN "Loaded"
    ELSE "Unloaded"

\* C13: the state of a tile changes only from Unloaded to Queued/Loading (an
\* update that sees it visible), from Loading to Loaded (the texture
\* arrived), from Loading to Unloaded (a request failed) and from Loaded to
\* Unloaded (an update that sees it not visible); in particular never from
\* Unloaded to Loaded, from Loaded to Loading, or by an eviction while
\* loading.
C13_Lifecycle ==
    [][\A t \in TileIds :
         LET a == TileState(tLoading[t], tLoaded[t])
             b == TileState(tLoading'[t], tLoaded'[t])
             U == \E show \in BOOLEAN : TileUpdate(t, show)
             v == Visible(TileDist(t, cam), far)
         IN  /\ a # "Invalid"
             /\ a # b =>
                  \/ a = "Unloaded" /\ b = "Loading" /\ U /\ v
                  \/ a = "Loading" /\ b = "Loaded"
                        /\ Ktx2Loaded([tile |-> t, stage |-> "ktx2"])
                  \/ a = "Loading" /\ b = "Unloaded"
                        /\ \/ GlbFailed([tile |-> t, stage |-> "glb"])
                           \/ Ktx2Failed([tile |-> t, stage |-> "ktx2"])
                  \/ a = "Loaded" /\ b = "Unloaded" /\ U /\ ~v
             /\ a = "Loading" /\ U =>
                  /\ b = "Loading" /\ t \notin evicted' \ evicted
                  /\ tGeom'[t] = tGeom[t] /\ tMap'[t] = tMap[t]
                  /\ (t \in tScene') = (t \in tScene)]_vars

\* one tile was loaded and evicted and is loading again, the other one is
\* back in Unloaded after a failed request
C13_Witness ==
    \E t, u \in TileIds :
        /\ t # u
        /\ tGeom[t] = "disposed" /\ TileState(tLoading[t], tLoaded[t]) = "Loading"
        /\ tGeom[u] = "live" /\ TileState(tLoading[u], tLoaded[u]) = "Unloaded"

\* C14: a tile is Loaded, and its mesh attached to the scene, only when the
\* geometry and the texture have both arrived and no request of the tile is
\* queued or pending; the only step that makes a tile Loaded or attaches its
\* mesh is the arrival of the texture, which was requested after the
\* geometry had arrived.
C14_LoadedAfterBoth ==
    [][\A t \in TileIds :
         /\ tLoaded'[t] \/ t \in tScene' =>
               /\ tLoaded'[t] /\ t \in tScene'
               /\ tGeom'[t] = "live" /\ tMap'[t] = "live"
               /\ CopiesIn([tile |-> t, stage |-> "glb"], loads') = 0
               /\ CopiesIn([tile |-> t, stage |-> "ktx2"], loads') = 0
               /\ \A i \in DOMAIN fetchQueue' : fetchQueue'[i] # t
         /\ (tLoaded'[t] /\ ~tLoaded[t]) \/ (t \in tScene' /\ t \notin tScene) =>
               /\ Ktx2Loaded([tile |-> t, stage |-> "ktx2"])
               /\ tGeom[t] = "live"]_vars

\* a tile is Loaded on its second attempt (the first one failed or was
\* evicted) while the other tile waits for its texture
C14_Witness ==
    \E t, u \in TileIds :
        /\ tLoaded[t] /\ t \in tScene /\ dispatched = MaxLoads
        /\ CopiesIn([tile |-> u, stage |-> "ktx2"], loads) = 1 /\ ~tLoaded[u]

\* the requests of tile t in flight, by stage
Glb(t) == [tile |-> t, stage |-> "glb"]
Ktx2(t) == [tile |-> t, stage |-> "ktx2"]

\* C22 (as claimed): load() issues the geometry request and the texture
\* request together, and the texture request stays issued when the geometry
\* request fails.
C22_IndependentRequests ==
    [][/\ Dispatch =>
            /\ CopiesIn(Glb(Head(fetchQueue)), loads') = 1
            /\ CopiesIn(Ktx2(Head(fetchQueue)), loads') = 1
       /\ \A r \in BagToSet(loads) :
            GlbFailed(r) => CopiesIn(Ktx2(r.tile), loads') = 1
    ]_vars

\* C22 (amended): load() issues the geometry request only. The texture
\* request is issued by the step in which the geometry arrives, never while
\* the geometry request is pending and never after it failed, so a tile has
\* at most one request in flight.
C22_TextureAfterGeometry ==
    [][/\ Dispatch =>
            /\ CopiesIn(Glb(Head(fetchQueue)), loads') = 1
            /\ CopiesIn(Ktx2(Head(fetchQueue)), loads') = 0
       /\ \A t \in TileIds :
            /\ CopiesIn(Glb(t), loads') + CopiesIn(Ktx2(t), loads') <= 1
            /\ CopiesIn(Ktx2(t), loads') > CopiesIn(Ktx2(t), loads) =>
                  /\ GlbLoaded(Glb(t))
                  /\ CopiesIn(Glb(t), loads) = 1
                  /\ tGeom'[t] = "live"
            /\ GlbFailed(Glb(t)) =>
                  /\ CopiesIn(Ktx2(t), loads') = 0
                  /\ tMap'[t] = tMap[t]
    ]_vars

\* of two load() calls, one got its geometry and waits for the texture, the
\* other ended with the failure of the geometry request: no geometry, no
\* texture request
C22_Witness ==
    \E t \in TileIds :
        /\ loads = SetToBag({Ktx2(t)})
        /\ bvhJobs = SetToBag({[tile |-> t]})
        /\ dispatched = 2 /\ fetchQueue = << >>
        /\ \A u \in TileIds : ~tLoaded[u] /\ tMap[u] = "none"
        /\ \A u \in TileIds \ {t} : tGeom[u] = "empty" /\ ~tBvh[u]
        /\ ~tBvh[t]

\* C26: in every state between two synchronous stretches the mesh of a
\* Tile is in the scene exactly when the tile is loaded, and no Tile is
\* loading and loaded at once.
C26_SceneIffLoaded ==
    \A t \in TileIds :
        /\ t \in tScene <=> tLoaded[t]
        /\ ~(tLoading[t] /\ tLoaded[t])

\* one tile is loaded and in the scene while the other, evicted before, is
\* loading again and out of the scene
C26_Witness ==
    \E t, u \in TileIds :
        /\ tLoaded[t] /\ t \in tScene /\ ~tLoading[t]
        /\ tLoading[u] /\ u \notin tScene /\ ~tLoaded[u] /\ u \in evicted

\* C27: Tile.loadCount is the number of Tiles with loaded = true, hence
\* never negative: a successful load adds one, an eviction takes one away,
\* and nothing else changes it.
C27_LoadCount ==
    /\ [](loadCount = Cardinality({t \in TileIds : tLoaded[t]}) /\ loadCount >= 0)
    /\ [][/\ (\E r \in BagToSet(loads) : Ktx2Loaded(r)) => loadCount' = loadCount + 1
          /\ loadCount' # loadCount =>
                \E t \in TileIds :
                    /\ tLoaded'[t] # tLoaded[t]
                    /\ \A u \in TileIds \ {t} : tLoaded'[u] = tLoaded[u]
                    /\ loadCount' = IF tLoaded'[t] THEN loadCount + 1 ELSE loadCount - 1
                    /\ tLoaded'[t] => Ktx2Loaded(Ktx2(t))
                    /\ ~tLoaded'[t] => \E show \in BOOLEAN : TileUpdate(t, show)
       ]_vars

\* a tile was loaded and evicted, and the other tile is loaded now
C27_Witness ==
    /\ loadCount = 1
    /\ \E t \in evicted, u \in TileIds : ~tLoaded[t] /\ tLoaded[u] /\ ~tLoading[t]

---------------------------------------------------------------------------
(* Claims on the elevation sampler *)

Started(c) == calls[c].pc # "idle"
Done(c) == calls[c].pc = "done"
SameKey(a, b) == CacheKey(calls[a].pt) = CacheKey(calls[b].pt)
Asked(c) == IF calls[c].asked THEN 1 ELSE 0

\* C8 (as claimed): two queries with the same cache key ask the provider at
\* most once in total and return the same value, whatever the provider
\* answers and however the two queries overlap.
C8_CacheIdempotent ==
    \A a, b \in 1..MaxCalls :
        a # b /\ Started(a) /\ Started(b) /\ SameKey(a, b)
            => /\ Asked(a) + Asked(b) <= 1
               /\ Done(a) /\ Done(b) => calls[a].ret = calls[b].ret

\* query a had put or found its value in the cache before query b started,
\* and no query stored a value for the key between the two
LastStoredBefore(a, b) ==
    /\ a # b /\ Done(a) /\ Started(b) /\ SameKey(a, b)
    /\ calls[a].outcome \in {"sampled", "hit"}
    /\ calls[a].doneAt < calls[b].startAt
    /\ \A k \in 1..MaxCalls :
          (Done(k) /\ SameKey(k, a) /\ calls[k].outcome = "sampled"
             /\ calls[k].doneAt < calls[b].startAt)
            => calls[k].doneAt <= calls[a].doneAt

\* C8 (amended): a query that starts after an earlier query with the same
\* key has returned a value the provider delivered (the last one stored for
\* the key) asks the provider no more and returns that same value.
C8_CachedAfterSuccess ==
    \A a, b \in 1..MaxCalls :
        LastStoredBefore(a, b)
            => /\ ~calls[b].asked
               /\ Done(b)
               /\ calls[b].ret = calls[a].ret
               /\ Asked(a) + Asked(b) <= 1

\* a query answered by the provider, then a second query with another
\* input of the same key
C8_Witness ==
    \E a, b \in 1..MaxCalls :
        /\ LastStoredBefore(a, b)
        /\ calls[a].outcome = "sampled"
        /\ calls[a].pt # calls[b].pt
        /\ calls[a].ret = 250

\* C20: no step removes an entry from sampledPositions, and a query that
\* starts while the cache holds an entry for its key returns at once with
\* the stored value, asks the provider nothing and leaves the cache as it
\* is.
C20_EntriesStay ==
    [][/\ DOMAIN sampledPositions \subseteq DOMAIN sampledPositions'
       /\ \A c \in 1..MaxCalls :
            (/\ ~Started(c)
             /\ calls'[c].pc # "idle"
             /\ CacheKey(calls'[c].pt) \in DOMAIN sampledPositions)
               => /\ calls'[c].pc = "done"
                  /\ calls'[c].outcome = "hit"
                  /\ calls'[c].ret = sampledPositions[CacheKey(calls'[c].pt)]
                  /\ ~calls'[c].asked /\ ~calls'[c].threw
                  /\ sampledPositions' = sampledPositions
       /\ \A c \in 1..MaxCalls :
            calls[c].outcome = "hit" => calls'[c] = calls[c]
    ]_vars

\* the first query stored 0 for a point without height; the second query,
\* for another point of the same key, returned the stored 0 from the cache
C20_Witness ==
    \E a, b \in 1..MaxCalls :
        /\ calls[a].outcome = "sampled" /\ calls[b].outcome = "hit"
        /\ calls[a].pt # calls[b].pt
        /\ calls[b].ret = 0 /\ ~calls[b].asked
        /\ CacheKey(calls[b].pt) \in DOMAIN sampledPositions

\* C9: a query during which the provider fails returns 0 and raises no
\* error.
C9_FailureGivesZero ==
    \A c \in 1..MaxCalls :
        calls[c].outcome \in {"failed", "noprovider"}
            => Done(c) /\ calls[c].ret = 0 /\ ~calls[c].threw

\* a query whose provider request was rejected has returned
C9_Witness ==
    \E c \in 1..MaxCalls :
        calls[c].asked /\ calls[c].outcome = "failed" /\ Done(c) /\ calls[c].ret = 0

\* query a ended in the sentinel before query b, for the same key, started,
\* and no query had stored a value for the key by then
SentinelBefore(a, b) ==
    /\ a # b /\ Done(a) /\ Started(b) /\ SameKey(a, b)
    /\ calls[a].outcome \in {"failed", "noprovider"}
    /\ calls[a].doneAt < calls[b].startAt
    /\ \A k \in 1..MaxCalls :
          Done(k) /\ SameKey(k, a) /\ calls[k].outcome = "sampled"
             => calls[k].doneAt > calls[b].startAt

\* C28: the step in which a query ends in the sentinel 0, the provider
\* having failed or being unavailable, leaves sampledPositions as it is; a
\* later query for the same key is therefore not answered from the cache:
\* it goes to the provider, and returns without asking it only when the
\* provider is unavailable (again with 0) or fails before the request.
C28_SentinelNotCached ==
    /\ [][\A c \in 1..MaxCalls :
            ~Done(c) /\ calls'[c].pc = "done"
              /\ calls'[c].outcome \in {"failed", "noprovider"}
                => /\ calls'[c].ret = 0
                   /\ sampledPositions' = sampledPositions]_vars
    /\ [](\A a, b \in 1..MaxCalls :
            SentinelBefore(a, b)
                => /\ calls[b].outcome # "hit"
                   /\ Done(b) /\ ~calls[b].asked =>
                         /\ calls[b].outcome \in {"failed", "noprovider"}
                         /\ calls[b].ret = 0)
    /\ [][\A a, b \in 1..MaxCalls :
            /\ SentinelBefore(a, b) /\ SampleProvider(b) /\ provider = "ready"
                  => calls'[b].asked /\ calls'[b].pc = "sample"
            /\ ~Started(b) /\ calls'[b].outcome = "noprovider"
                  => variant = "B" /\ provider # "ready"]_vars

\* a query whose provider request was rejected returned 0; a later query
\* for the same key asked the provider and returned the elevation 250,
\* which is now in the cache
C28_Witness ==
    \E a, b \in 1..MaxCalls :
        /\ SentinelBefore(a, b)
        /\ calls[a].asked /\ calls[a].ret = 0
        /\ calls[b].asked /\ calls[b].outcome = "sampled" /\ calls[b].ret = 250
        /\ sampledPositions[CacheKey(calls[b].pt)] = 250

---------------------------------------------------------------------------
(* CesiumTerrain whose terrain provider never becomes available.  Every    *)
(* continuation of a suspended call is run by the event loop once its       *)
(* promise has settled, and the initialisation promise of variant A        *)
(* settles (here: with null).                                               *)

\* the keys update can ask for
AllKeys ==
    UNION { {TileKey(t.e, t.n) : t \in Range(Needed(c, tileSize, ViewDistance(v, f)))} :
                c \in CamPositions, f \in FarValues, v \in {"A", "B"} }

\* the continuations of the call for key k
JobStepOf(k) ==
    \E j \in BagToSet(jobs) :
        /\ j.key = k
        /\ JobTimeout(j) \/ JobProvider(j) \/ JobSampleFailed(j)

NextNoProvider ==
    \/ CesiumUpdateStep
    \/ ProviderFail
    \/ JobTimeoutStep
    \/ JobProviderStep
    \/ JobSampleFailedStep
    \/ SampleStart
    \/ SampleProviderStep

FairNoProvider ==
    /\ WF_vars(ProviderFail)
    /\ \A k \in AllKeys : WF_vars(JobStepOf(k))
    /\ \A c \in 1..MaxCalls : WF_vars(SampleProvider(c))

\* the camera rests where update needs two tiles, or one with a negative
\* coordinate
InitNoProvider ==
    /\ cam \in {[x |-> 9000, y |-> 0], [x |-> -12750, y |-> 0]} /\ far = 10000
    /\ variant \in {"A", "B"} /\ InitC /\ InitS /\ InitT /\ InitP

SpecNoProvider == InitNoProvider /\ [][NextNoProvider]_vars /\ FairNoProvider

---------------------------------------------------------------------------
(* CesiumTerrain for a camera at rest, every awaited promise settling: the  *)
(* initialisation promise resolves or fails, and the event loop runs each   *)
(* continuation of a suspended createTerrainTile call.                      *)

\* the continuations of the call for key k: after the sleep, after the
\* provider, after the elevation request, after the texture
JobRunOf(k) ==
    \E j \in BagToSet(jobs) :
        /\ j.key = k
        /\ \/ JobTimeout(j)
           \/ JobProvider(j)
           \/ JobSampled(j)
           \/ JobSampleFailed(j)
           \/ JobInstall(j)
           \/ JobTextureFailed(j)

FairLoading ==
    /\ WF_vars(ProviderReady \/ ProviderFail)
    /\ \A k \in AllKeys : WF_vars(JobRunOf(k))

InitLoading ==
    /\ cam \in {[x |-> 9000, y |-> 0], [x |-> -12750, y |-> 0]} /\ far = 10000
    /\ variant \in {"A", "B"} /\ InitC /\ InitS /\ InitT /\ InitP

SpecLoading == InitLoading /\ [][NextC]_vars /\ FairLoading

\* C23: every createTerrainTile call that put its key into loadingTiles
\* takes it out again: a key in loadingTiles always has its call in flight,
\* the step that ends the call (installing the tile, any failure, the early
\* return for a missing provider) removes the key, and, the awaited
\* promises settling, a key in loadingTiles eventually is not in it.
C23_LoadingEnds ==
    /\ [](\A k \in loadingTiles : \E j \in BagToSet(jobs) : j.key = k)
    /\ [][\A j \in BagToSet(jobs) :
            CopiesIn(j, jobs') < CopiesIn(j, jobs) /\ (\A h \in BagToSet(jobs') : h.key # j.key)
                => j.key \in loadingTiles /\ j.key \notin loadingTiles']_vars
    /\ \A k \in AllKeys : (k \in loadingTiles) ~> (k \notin loadingTiles)

\* one call has installed its tile, another has failed, and nothing is
\* loading any more
C23_Witness ==
    /\ tiles # << >> /\ failedKeys # {}
    /\ \E k \in failedKeys : k \notin DOMAIN tiles
    /\ loadingTiles = {} /\ jobs = EmptyBag

---------------------------------------------------------------------------
(* Claims on both tile streamers *)

\* C17: a failed load leaves its tile eligible for a new attempt. Tile: the
\* failure leaves the tile Unloaded, neither queued nor loading; an update
\* that sees an Unloaded tile in range puts it into the fetch queue exactly
\* once; the texture arriving in a later attempt makes the tile Loaded.
\* CesiumTerrain: the failed call takes its key out of loadingTiles and
\* leaves tiles alone; an update starts exactly one call for every
\* coordinate in range that is neither in tiles nor in loadingTiles; the
\* call that completes installs the tile.
C17_RetryAfterFailure ==
    [][/\ \A r \in BagToSet(loads) :
            /\ GlbFailed(r) \/ Ktx2Failed(r) =>
                  /\ TileState(tLoading'[r.tile], tLoaded'[r.tile]) = "Unloaded"
                  /\ \A i \in DOMAIN fetchQueue' : fetchQueue'[i] # r.tile
                  /\ CopiesIn([tile |-> r.tile, stage |-> "glb"], loads') = 0
                  /\ CopiesIn([tile |-> r.tile, stage |-> "ktx2"], loads') = 0
            /\ Ktx2Loaded(r) =>
                  TileState(tLoading'[r.tile], tLoaded'[r.tile]) = "Loaded"
       /\ \A t \in TileIds :
            (/\ TileState(tLoading[t], tLoaded[t]) = "Unloaded"
             /\ TileDist(t, cam) < far * far
             /\ \E show \in BOOLEAN : TileUpdate(t, show))
               => /\ fetchQueue' = Append(fetchQueue, t)
                  /\ \A i \in DOMAIN fetchQueue : fetchQueue[i] # t
                  /\ tLoading'[t]
       /\ \A j \in BagToSet(jobs) :
            /\ (JobSampleFailed(j) \/ JobTextureFailed(j)
                    \/ (JobTimeout(j) /\ provider # "ready")) =>
                  /\ j.key \notin loadingTiles' /\ tiles' = tiles /\ scene' = scene
                  /\ \A h \in BagToSet(jobs') : h.key # j.key
            /\ JobInstall(j) =>
                  j.key \in DOMAIN tiles' /\ BagIn([e |-> j.e, n |-> j.n], scene')
       /\ (UNCHANGED <<varsT, provider>> /\ CesiumUpdateStep) =>
            \A t \in ExpectedCoords(cam, tileSize, ViewDistance(variant, far)) :
                LET k == TileKey(t.e, t.n)
                IN  k \notin DOMAIN tiles /\ k \notin loadingTiles
                      => /\ k \in loadingTiles'
                         /\ {h \in BagToSet(jobs') : h.key = k}
                               = {[key |-> k, e |-> t.e, n |-> t.n, pc |-> FirstAwait]}
                         /\ CopiesIn([key |-> k, e |-> t.e, n |-> t.n,
                                      pc |-> FirstAwait], jobs') = 1
    ]_vars

\* with the camera at rest, a tile whose geometry arrived twice (its first
\* attempt failed at the texture) is Loaded, and a key whose first call
\* failed is installed in tiles
C17_Witness ==
    /\ \E t \in TileIds :
          tLoaded[t] /\ CopiesIn([tile |-> t], bvhJobs) = 2
    /\ \E k \in failedKeys : k \in DOMAIN tiles

\* C19: the wireframe flag of a Tile changes only in an update of that
\* tile that finds it loaded, and then to the value passed; a tile with
\* loaded = false keeps its material. CesiumTerrain.update sets the flag of
\* the tiles it keeps to the value passed, changes none when the value is
\* undefined and none of a tile it evicts in the same update; no other step
\* changes a flag, and a tile is installed with the flag off.
C19_WireframeOnlyLoaded ==
    [][/\ \A t \in TileIds :
            /\ tWire'[t] # tWire[t] =>
                  /\ tLoaded[t]
                  /\ \E show \in BOOLEAN : TileUpdate(t, show) /\ tWire'[t] = show
            /\ ~tLoaded[t] => tWire'[t] = tWire[t]
       /\ \A show \in ShowValues :
            tiles # << >> /\ CesiumUpdate(show) =>
                LET gone == TilesToRemove(cam, ViewDistance(variant, far))
                IN  \A k \in DOMAIN tiles :
                      /\ k \in gone =>
                            /\ k \notin DOMAIN tiles'
                            /\ SweepTile(k, show, gone).removed
                            /\ SweepTile(k, show, gone).tile.wire = tiles[k].wire
                      /\ k \notin gone =>
                            /\ k \in DOMAIN tiles'
                            /\ tiles'[k].wire =
                                  IF show = "undefined" THEN tiles[k].wire ELSE show
       /\ (\E k \in DOMAIN tiles' :
               tiles'[k].wire # IF k \in DOMAIN tiles THEN tiles[k].wire ELSE "false")
            => CesiumUpdateStep
    ]_vars

\* a loaded Tile shows its wireframe while the other Tile, not loaded, does
\* not; CesiumTerrain holds a tile with the wireframe on while another key
\* is loading
C19_Witness ==
    /\ \E t, u \in TileIds :
          tLoaded[t] /\ tWire[t] /\ ~tLoaded[u] /\ ~tWire[u]
    /\ \E k \in DOMAIN tiles : tiles[k].wire = "true"
    /\ loadingTiles # {}

---------------------------------------------------------------------------
(* Claims on SimpleTerrain *)

\* what update(camera, showWireFrame) makes of tiles and the scene st, the
\* camera being at c
SimpleUpdated(st, c, show) ==
    LET made == SimpleCreateAll(SimpleCandidates(c), c, st)
    IN  [tiles |-> [k \in DOMAIN made.tiles |-> SetWireframe(made.tiles[k], show)],
         scene |-> made.scene]

\* the grid coordinates within GridReach steps of the snapped viewpoint
\* that are closer to the viewpoint than 1.5 tile sizes
GridTiles(c) ==
    LET S == simpleTileSize
    IN  { t \in [e : {Round(c.x, S) * S + dx * S : dx \in -GridReach..GridReach},
                 n : {Round(c.y, S) * S + dy * S : dy \in -GridReach..GridReach}] :
            (t.e - c.x) * (t.e - c.x) + (t.n - c.y) * (t.n - c.y) < ((3 * S) \div 2) * ((3 * S) \div 2) }

\* C29: SimpleTerrain.update is idempotent for a fixed viewpoint: a second
\* call with the same viewpoint and wireframe flag leaves tiles and the
\* scene as the first call left them, and createTerrainTile changes
\* nothing for a coordinate that is tracked, so that the scene holds one
\* mesh per tile. The first call after construction creates exactly the
\* grid tiles within GridReach steps whose distance from the viewpoint is
\* below 1.5 tileSize, each with its mesh in the scene.
C29_UpdateIdempotent ==
    [][\A show \in ShowValues :
          SimpleUpdate(show) =>
            LET after == [tiles |-> sTiles', scene |-> sScene']
            IN  /\ after = SimpleUpdated([tiles |-> sTiles, scene |-> sScene], cam, show)
                /\ SimpleUpdated(after, cam', show) = after
                /\ \A k \in DOMAIN sTiles' :
                      /\ SimpleCreate(after, sTiles'[k]) = after
                      /\ CopiesIn(SimpleMesh(sTiles'[k]), sScene') = 1
                /\ sTiles = << >> =>
                      /\ DOMAIN sTiles' = {TileKey(t.e, t.n) : t \in GridTiles(cam)}
                      /\ \A t \in GridTiles(cam) :
                            /\ sTiles'[TileKey(t.e, t.n)].e = t.e
                            /\ sTiles'[TileKey(t.e, t.n)].n = t.n
                      /\ sScene' = SetToBag({BaseGround})
                                     (+) SetToBag({SimpleMesh(t) : t \in GridTiles(cam)})
    ]_vars

\* the first update, from a viewpoint off the grid with the wireframe on,
\* has created the six tiles closer than 1.5 tileSize
C29_Witness ==
    /\ cam = [x |-> 4000, y |-> -4000]
    /\ Cardinality(DOMAIN sTiles) = 6
    /\ \A k \in DOMAIN sTiles : sTiles[k].wire = "true"
    /\ BagCardinality(sScene) = 7

\* C16 (as claimed): whatever the flight, after an update SimpleTerrain
\* tracks no more tiles than one update can examine, (2 GridReach + 1)^2,
\* and none that lies beyond the reach of the update loop around the
\* viewpoint: the tiles left behind have been removed from tiles and from
\* the scene.
C16_BoundedTiles ==
    [][SimpleUpdateStep =>
        LET S      == simpleTileSize
            w      == 2 * GridReach + 1
            Abs(x) == IF x < 0 THEN -x ELSE x
            Far(t) == \/ Abs(t.e - cam'.x) > (GridReach + 1) * S
                      \/ Abs(t.n - cam'.y) > (GridReach + 1) * S
        IN  /\ Cardinality(DOMAIN sTiles') <= w * w
            /\ \A k \in DOMAIN sTiles' : ~Far(sTiles'[k])
            /\ \A m \in BagToSet(sScene') : m.kind = "tile" => ~Far(m)
    ]_vars

====
